---- MODULE Spec2Model ----
(***************************************************************************)
(* Model of src/src/lib.rs: BPE vocabulary training (Vocab::new,           *)
(* Vocab::merge, Vocab::build, Vocab::tokens) and greedy longest-prefix    *)
(* tokenization (Tokenizer::tokenize).                                     *)
(*                                                                         *)
(* Positions are 0-based as in the source; a TLA+ sequence s is indexed    *)
(* s[i + 1] for the source's s[i].                                         *)
(***************************************************************************)
EXTENDS Integers, Sequences, FiniteSets, TLC

(* ---------------------------- bounds ----------------------------------- *)

\* Largest number of words handed to Vocab::new.
MaxWords == 2
\* Largest number of symbols in all words handed to Vocab::new together.
MaxCorpusLen == 4
\* Largest length of a sequence handed to Tokenizer::tokenize.
MaxInputLen == 3
\* Largest min_freq handed to Vocab::merge.
MaxMinFreq == 2
\* Largest length of the word of a one-word corpus.
MaxWordLen == 5

\* Symbols (the type parameter C) that training words are made of.
CorpusSymbols == {"A", "B"}
\* A symbol that no training word contains.
UnseenSymbol == "Z"
InputSymbols == CorpusSymbols \cup {UnseenSymbol}

BoundedSeq(S, n) == UNION {[1..k -> S] : k \in 0..n}

\* The sequences of at most k words that hold at most n symbols together.
RECURSIVE CorporaOf(_, _)
CorporaOf(k, n) ==
    IF k = 0
    THEN {<<>>}
    ELSE {<<>>} \cup UNION {{<<w>> \o c : c \in CorporaOf(k - 1, n - Len(w))} :
                               w \in BoundedSeq(CorpusSymbols, n)}

\* The iterables Vocab::new is called with (empty words included).
RawCorpora == CorporaOf(MaxWords, MaxCorpusLen)
\* The slices Tokenizer::tokenize is called with.
Inputs == BoundedSeq(InputSymbols, MaxInputLen)
\* The thresholds Vocab::merge is called with: min_freq >= 1.  (Every entry
\* of `pairs` has v.len() >= 1, so merge(0) behaves exactly as merge(1).)
MinFreqs == 1..MaxMinFreq

(* ---------------------------- state ------------------------------------ *)

VARIABLES
    words,        \* Vocab.words: the chars of every word
    token_head,   \* Vocab.words[w][i].token_head, as token_head[w][i + 1]
    tokens,       \* Vocab.tokens
    training,     \* TRUE while the Vocab exists
    tokenizer,    \* the Tokenizer most recently returned by build: its trie
    last,         \* the most recent call on the Vocab and what it returned
    ok_rounds,    \* how many merge calls have returned Ok so far
    tz_pc,        \* position of a tokenize call: "idle", "loop", "done", "panic"
    tz_input,     \* the slice tokenize was called with
    tz_word,      \* tokenize's local `word`: the part not yet consumed
    tz_result,    \* tokenize's local `result`
    tz_prev,      \* what the call before a repeated call returned
    token_head2,  \* a second training run on the same corpus: its markers,
    tokens2,      \*   its token set
    last2         \*   and what its most recent call returned

vocab_vars == <<words, token_head, tokens>>
tz_vars == <<tz_pc, tz_input, tz_word, tz_result, tz_prev>>
run2_vars == <<token_head2, tokens2, last2>>
vars == <<words, token_head, tokens, training, tokenizer, last, ok_rounds,
          tz_pc, tz_input, tz_word, tz_result, tz_prev, token_head2, tokens2, last2>>

(* ---------------------------- Vocab::new ------------------------------- *)

\* lines 30-41: every char gets token_head 1; empty words are filtered out.
new_words(raw) == SelectSeq(raw, LAMBDA w : w # <<>>)

new_token_head(wds) == [w \in DOMAIN wds |-> [i \in DOMAIN wds[w] |-> 1]]

NoCall == [op |-> "new", min_freq |-> 0, result |-> "none"]

(* ---------------------------- Vocab::merge ----------------------------- *)

\* lines 49-65: the scan of one word from a_pos on.  Yields the pushes made
\* into `pairs` as records [a_pos, token], and whether an index or a slice
\* ran out of bounds (a panic).
RECURSIVE scan_word(_, _, _)
scan_word(word, heads, a_pos) ==
    IF a_pos >= Len(word)
    THEN [panic |-> TRUE, pushed |-> {}]
    ELSE LET a_len == heads[a_pos + 1]
             b_pos == a_pos + a_len
         IN  IF b_pos >= Len(word)
             THEN [panic |-> FALSE, pushed |-> {}]
             ELSE LET b_len == heads[b_pos + 1]
                  IN  IF a_len + b_len > Len(word) - a_pos
                      THEN [panic |-> TRUE, pushed |-> {}]
                      ELSE LET token == SubSeq(word, a_pos + 1, a_pos + a_len + b_len)
                               rest == scan_word(word, heads, b_pos)
                           IN  [panic |-> rest.panic,
                                pushed |-> {[a_pos |-> a_pos, token |-> token]}
                                             \cup rest.pushed]

\* lines 47-66: the map `pairs` after the scan of all words, as the set of
\* its entries' occurrences [w, a_pos, token]; w and a_pos identify the
\* &VocabChar that was pushed.
pairs(wds, heads) ==
    UNION {{[w |-> w, a_pos |-> p.a_pos, token |-> p.token] :
                p \in scan_word(wds[w], heads[w], 0).pushed} : w \in DOMAIN wds}

scan_panics(wds, heads) ==
    \E w \in DOMAIN wds : scan_word(wds[w], heads[w], 0).panic

\* v.len() of the entry of `pairs` under key k.
freq(prs, k) == Cardinality({p \in prs : p.token = k})

\* best_candidates with the filter v.len() > min_freq.
best_candidates_strict(prs, min_freq) ==
    LET kept == {k \in {p.token : p \in prs} : freq(prs, k) > min_freq}
    IN  {k \in kept : \A j \in kept : freq(prs, j) <= freq(prs, k)}

\* best_candidates with min_by_key in place of max_by_key.
best_candidates_least(prs, min_freq) ==
    LET kept == {k \in {p.token : p \in prs} : freq(prs, k) >= min_freq}
    IN  {k \in kept : \A j \in kept : freq(prs, k) <= freq(prs, j)}

\* lines 68-71: the entries that pass the filter and have the maximal
\* v.len().  max_by_key walks the HashMap in its iteration order, which is
\* not fixed, so any of them can be `best`.
best_candidates(prs, min_freq) ==
    LET kept == {k \in {p.token : p \in prs} : freq(prs, k) >= min_freq}
    IN  {k \in kept : \A j \in kept : freq(prs, j) <= freq(prs, k)}

\* commit without the loop of lines 74-76: no marker is updated.
commit_nothing(prs, heads, best) == heads

\* commit that updates only the first occurrence pushed for best.
commit_first_only(prs, heads, best) ==
    LET occ == {p \in prs : p.token = best}
        first == CHOOSE p \in occ :
                    \A q \in occ : p.w < q.w \/ (p.w = q.w /\ p.a_pos <= q.a_pos)
    IN  [w \in DOMAIN heads |->
            [i \in DOMAIN heads[w] |->
                IF first.w = w /\ first.a_pos + 1 = i
                THEN Len(best)
                ELSE heads[w][i]]]

\* commit that also resets every other marker to 1.
commit_resets_rest(prs, heads, best) ==
    [w \in DOMAIN heads |->
        [i \in DOMAIN heads[w] |->
            IF \E p \in prs : p.w = w /\ p.a_pos + 1 = i /\ p.token = best
            THEN Len(best)
            ELSE 1]]

\* commit that sets the marker to best.len() + 1.
commit_off_by_one(prs, heads, best) ==
    [w \in DOMAIN heads |->
        [i \in DOMAIN heads[w] |->
            IF \E p \in prs : p.w = w /\ p.a_pos + 1 = i /\ p.token = best
            THEN Len(best) + 1
            ELSE heads[w][i]]]

\* lines 74-76: token_head of every occurrence of best is set to best.len().
commit(prs, heads, best) ==
    [w \in DOMAIN heads |->
        [i \in DOMAIN heads[w] |->
            IF \E p \in prs : p.w = w /\ p.a_pos + 1 = i /\ p.token = best
            THEN Len(best)
            ELSE heads[w][i]]]

\* merge that commits the most frequent key and inserts it before it
\* compares its count with min_freq.
merge_commits_then_checks(wds, heads, toks, min_freq) ==
    IF scan_panics(wds, heads)
    THEN {[result |-> "Panic", token_head |-> heads, tokens |-> toks]}
    ELSE LET prs == pairs(wds, heads)
             bests == best_candidates(prs, 0)
         IN  IF bests = {}
             THEN {[result |-> "Err", token_head |-> heads, tokens |-> toks]}
             ELSE {[result |-> IF freq(prs, best) >= min_freq THEN "Ok" ELSE "Err",
                    token_head |-> commit(prs, heads, best),
                    tokens |-> toks \cup {best}] : best \in bests}

\* lines 46-80: the outcomes of one call of merge(min_freq).
merge(wds, heads, toks, min_freq) ==
    IF scan_panics(wds, heads)
    THEN {[result |-> "Panic", token_head |-> heads, tokens |-> toks]}
    ELSE LET prs == pairs(wds, heads)
             bests == best_candidates(prs, min_freq)
         IN  IF bests = {}
             THEN {[result |-> "Err", token_head |-> heads, tokens |-> toks]}
             ELSE {[result |-> "Ok",
                    token_head |-> commit(prs, heads, best),
                    tokens |-> toks \cup {best}] : best \in bests}

(* ---------------------------- Vocab::build ----------------------------- *)

NoTokenizer == [built |-> FALSE, trie |-> {}]

\* lines 86-92: every token is pushed into a fresh TrieBuilder; the trie
\* holds its own copy of them.
build(toks) == [built |-> TRUE, trie |-> toks]

\* A Tokenizer that reads the Vocab's token set instead of owning a copy.
tokenizer_shared(tkz, toks) == IF tkz.built THEN [built |-> TRUE, trie |-> toks] ELSE tkz

\* lines 19-21, 77: the Tokenizer owns its trie, so an insert into
\* Vocab.tokens does not reach a Tokenizer built before it.
tokenizer_after_merge(tkz, toks) == tkz

(* ---------------------------- Tokenizer::tokenize ---------------------- *)

IsPrefix(t, word) == Len(t) <= Len(word) /\ SubSeq(word, 1, Len(t)) = t

\* trie_rs: the entries of the trie that are a prefix of the query.
common_prefix_search(trie, word) == {t \in trie : IsPrefix(t, word)}

SetMax(S) == CHOOSE x \in S : \A y \in S : y <= x

SetMin(S) == CHOOSE x \in S : \A y \in S : x <= y

\* next_len with min() in place of max().
next_len_shortest(trie, word) ==
    LET lens == {Len(x) : x \in common_prefix_search(trie, word)}
    IN  IF lens = {} THEN 1 ELSE SetMin(lens)

\* next_len with unwrap_or(0) in place of unwrap_or(1).
next_len_or_zero(trie, word) ==
    LET lens == {Len(x) : x \in common_prefix_search(trie, word)}
    IN  IF lens = {} THEN 0 ELSE SetMax(lens)

\* lines 104-110: the length of the next span.
next_len(trie, word) ==
    LET lens == {Len(x) : x \in common_prefix_search(trie, word)}
    IN  IF lens = {} THEN 1 ELSE SetMax(lens)

\* rest_after with &word[n + 1..].
rest_after_skips(word, n) == SubSeq(word, n + 2, Len(word))

\* line 112: &word[n..]
rest_after(word, n) == SubSeq(word, n + 1, Len(word))

\* lines 101-115: the whole loop, as a function of the trie and the input.
RECURSIVE tokenize(_, _)
tokenize(trie, word) ==
    IF word = <<>>
    THEN <<>>
    ELSE LET n == next_len(trie, word)
         IN  <<SubSeq(word, 1, n)>> \o tokenize(trie, rest_after(word, n))

(* ---------------------------- actions ---------------------------------- *)

\* Vocab::new on some corpus; no Tokenizer yet, no tokenize call made.
InitVocab ==
    /\ words \in {new_words(raw) : raw \in RawCorpora}
    /\ token_head = new_token_head(words)
    /\ tokens = {}
    /\ training = TRUE
    /\ tokenizer = NoTokenizer
    /\ last = NoCall
    /\ ok_rounds = 0
    /\ tz_pc = "idle"
    /\ tz_input = <<>>
    /\ tz_word = <<>>
    /\ tz_result = <<>>
    /\ tz_prev = <<>>

\* One training run.
Init ==
    /\ InitVocab
    /\ token_head2 = <<>>
    /\ tokens2 = {}
    /\ last2 = NoCall

\* No tokenize call is in its loop and no call has panicked.
AtRest == tz_pc # "loop" /\ tz_pc # "panic" /\ last.result # "Panic"

\* vocab.merge(min_freq)
Merge(min_freq) ==
    /\ training
    /\ AtRest
    /\ \E out \in merge(words, token_head, tokens, min_freq) :
          /\ token_head' = out.token_head
          /\ tokens' = out.tokens
          /\ last' = [op |-> "merge", min_freq |-> min_freq, result |-> out.result]
          /\ ok_rounds' = IF out.result = "Ok" THEN ok_rounds + 1 ELSE ok_rounds
          /\ tokenizer' = tokenizer_after_merge(tokenizer, out.tokens)
    /\ UNCHANGED <<words, training, tz_vars, run2_vars>>

\* vocab.build()
Build ==
    /\ training
    /\ AtRest
    /\ tokenizer' = build(tokens)
    /\ last' = [op |-> "build", min_freq |-> 0, result |-> "none"]
    /\ UNCHANGED <<vocab_vars, training, ok_rounds, tz_vars, run2_vars>>

\* The training session ends: the Vocab (words, markers, token set) is
\* dropped and only the Tokenizer lives on.  tokenize reads nothing but the
\* Tokenizer's trie and its argument (lines 101-115), so its calls are
\* modelled from here on, for every Tokenizer training can leave behind.
EndTraining ==
    /\ training
    /\ AtRest
    /\ tokenizer.built
    /\ training' = FALSE
    /\ words' = <<>>
    /\ token_head' = <<>>
    /\ tokens' = {}
    /\ ok_rounds' = 0
    /\ last' = [op |-> "drop", min_freq |-> 0, result |-> "none"]
    /\ UNCHANGED <<tokenizer, tz_vars, run2_vars>>

\* The symbols of a sequence of spans, in order.
RECURSIVE Concat(_)
Concat(ss) == IF ss = <<>> THEN <<>> ELSE Head(ss) \o Concat(Tail(ss))

\* A call that starts from the `result` the call before it left behind.
stale_result == tz_result

\* line 102: let mut result = Vec::new()
new_result == <<>>

\* tokenizer.tokenize(w): lines 101-102.  The result of an earlier call has
\* been dropped by the caller.
TokenizeCall(w) ==
    /\ ~training
    /\ AtRest
    /\ tz_pc' = "loop"
    /\ tz_input' = w
    /\ tz_word' = w
    /\ tz_result' = new_result
    /\ tz_prev' = <<>>
    /\ last' = [op |-> "tokenize", min_freq |-> 0, result |-> "none"]
    /\ UNCHANGED <<vocab_vars, training, tokenizer, ok_rounds, run2_vars>>

\* lines 103-113: one iteration of the loop
TokenizeStep ==
    /\ tz_pc = "loop"
    /\ tz_word # <<>>
    /\ LET n == next_len(tokenizer.trie, tz_word)
       IN  IF n > Len(tz_word)
           THEN /\ tz_pc' = "panic"
                /\ UNCHANGED <<tz_word, tz_result>>
           ELSE /\ tz_result' = Append(tz_result, SubSeq(tz_word, 1, n))
                /\ tz_word' = rest_after(tz_word, n)
                /\ tz_pc' = "loop"
    /\ UNCHANGED <<vocab_vars, training, tokenizer, last, ok_rounds, tz_input, tz_prev,
                   run2_vars>>

\* lines 103, 114: the loop condition fails and result is returned
TokenizeReturn ==
    /\ tz_pc = "loop"
    /\ tz_word = <<>>
    /\ tz_pc' = "done"
    /\ UNCHANGED <<vocab_vars, training, tokenizer, last, ok_rounds, tz_input, tz_word,
                   tz_result, tz_prev, run2_vars>>

\* The caller keeps the spans a call returned and calls tokenize again on
\* the same Tokenizer with their concatenation: lines 101-102.
TokenizeAgain ==
    /\ ~training
    /\ tz_pc = "done"
    /\ last.op = "tokenize"
    /\ tz_pc' = "loop"
    /\ tz_input' = Concat(tz_result)
    /\ tz_word' = Concat(tz_result)
    /\ tz_result' = new_result
    /\ tz_prev' = tz_result
    /\ last' = [op |-> "retokenize", min_freq |-> 0, result |-> "none"]
    /\ UNCHANGED <<vocab_vars, training, tokenizer, ok_rounds, run2_vars>>

Next ==
    \/ \E min_freq \in MinFreqs : Merge(min_freq)
    \/ Build
    \/ EndTraining
    \/ \E w \in Inputs : TokenizeCall(w)
    \/ TokenizeStep
    \/ TokenizeReturn
    \/ TokenizeAgain

Spec == Init /\ [][Next]_vars

\* tokenize is a synchronous loop without suspension points: a call that has
\* started keeps taking its next iteration, and returns when its loop ends.
FairSpec == Spec /\ WF_vars(TokenizeStep) /\ WF_vars(TokenizeReturn)

(* ---------------------------- two training runs ------------------------ *)

\* Two training runs on the same corpus.
InitTwin ==
    /\ InitVocab
    /\ token_head2 = token_head
    /\ tokens2 = {}
    /\ last2 = NoCall

\* Both runs call merge with the same min_freq.  Each run has its own
\* HashMap, so each picks its own `best`.
MergeTwin(min_freq) ==
    /\ last.result # "Panic"
    /\ last2.result # "Panic"
    /\ \E out \in merge(words, token_head, tokens, min_freq) :
          /\ token_head' = out.token_head
          /\ tokens' = out.tokens
          /\ last' = [op |-> "merge", min_freq |-> min_freq, result |-> out.result]
          /\ ok_rounds' = IF out.result = "Ok" THEN ok_rounds + 1 ELSE ok_rounds
    /\ \E out2 \in merge(words, token_head2, tokens2, min_freq) :
          /\ token_head2' = out2.token_head
          /\ tokens2' = out2.tokens
          /\ last2' = [op |-> "merge", min_freq |-> min_freq, result |-> out2.result]
    /\ UNCHANGED <<words, training, tokenizer, tz_vars>>

NextTwin == \E min_freq \in MinFreqs : MergeTwin(min_freq)

SpecTwin == InitTwin /\ [][NextTwin]_vars

(* ---------------------------- training on one word --------------------- *)

\* Vocab::new([word]) for one non-empty word, as in tests::case01.
OneWordCorpora ==
    {<<w>> : w \in UNION {[1..k -> CorpusSymbols] : k \in 1..MaxWordLen}}

InitOneWord ==
    /\ words \in {new_words(raw) : raw \in OneWordCorpora}
    /\ token_head = new_token_head(words)
    /\ tokens = {}
    /\ training = TRUE
    /\ tokenizer = NoTokenizer
    /\ last = NoCall
    /\ ok_rounds = 0
    /\ tz_pc = "idle"
    /\ tz_input = <<>>
    /\ tz_word = <<>>
    /\ tz_result = <<>>
    /\ tz_prev = <<>>
    /\ token_head2 = <<>>
    /\ tokens2 = {}
    /\ last2 = NoCall

\* Merge rounds, and build after any of them.
NextOneWord ==
    \/ \E min_freq \in MinFreqs : Merge(min_freq)
    \/ Build

SpecOneWord == InitOneWord /\ [][NextOneWord]_vars

(* ---------------------------- the scenario of tests::case01 ------------ *)

\* line 129: "ABCDCDABCDCDE"
ScenarioWord ==
    <<"A", "B", "C", "D", "C", "D", "A", "B", "C", "D", "C", "D", "E">>

\* line 130: Vocab::new([data.clone()])
InitScenario ==
    /\ words = new_words(<<ScenarioWord>>)
    /\ token_head = new_token_head(words)
    /\ tokens = {}
    /\ training = TRUE
    /\ tokenizer = NoTokenizer
    /\ last = NoCall
    /\ ok_rounds = 0
    /\ tz_pc = "idle"
    /\ tz_input = <<>>
    /\ tz_word = <<>>
    /\ tz_result = <<>>
    /\ tz_prev = <<>>
    /\ token_head2 = <<>>
    /\ tokens2 = {}
    /\ last2 = NoCall

\* lines 131-138: merge rounds with min_freq = 1, build, tokenize(&data)
NextScenario ==
    \/ Merge(1)
    \/ Build
    \/ EndTraining
    \/ TokenizeCall(ScenarioWord)
    \/ TokenizeStep
    \/ TokenizeReturn

SpecScenario == InitScenario /\ [][NextScenario]_vars

(* ---------------------------- definitions for the properties ----------- *)

RECURSIVE SumLen(_)
SumLen(ss) == IF ss = <<>> THEN 0 ELSE Len(Head(ss)) + SumLen(Tail(ss))

\* The part of the input that was left when span i was emitted.
RestAt(i) == SubSeq(tz_input, SumLen(SubSeq(tz_result, 1, i - 1)) + 1, Len(tz_input))

\* The vocabulary tokens that are a prefix of s.
PrefixTokens(s) == {t \in tokenizer.trie : IsPrefix(t, s)}

\* The symbols that occur in the corpus.
Symbols(wds) == UNION {{wds[w][i] : i \in DOMAIN wds[w]} : w \in DOMAIN wds}

\* The span starts (0-based) of one word: from p on, stepping by the marker.
RECURSIVE SpanStarts(_, _)
SpanStarts(heads, p) ==
    IF p >= Len(heads) THEN {} ELSE {p} \cup SpanStarts(heads, p + heads[p + 1])

\* The adjacent span pairs of the corpus, each as [w, p, left, right].
AdjacentPairs(wds, heads) ==
    UNION {{[w |-> w, p |-> p,
             left |-> SubSeq(wds[w], p + 1, p + heads[w][p + 1]),
             right |-> SubSeq(wds[w], p + heads[w][p + 1] + 1,
                              p + heads[w][p + 1] + heads[w][p + heads[w][p + 1] + 1])] :
                p \in {q \in SpanStarts(heads[w], 0) : q + heads[w][q + 1] < Len(wds[w])}} :
           w \in DOMAIN wds}

\* The aggregate frequency of the ordered pair (l, r).
PairFreq(aps, l, r) == Cardinality({a \in aps : a.left = l /\ a.right = r})

\* The maximal aggregate frequency over all pairs (0 when there is none).
MaxPairFreq(aps) ==
    IF aps = {} THEN 0
    ELSE SetMax({PairFreq(aps, a.left, a.right) : a \in aps})

MergeReturned == last.op = "merge"

(* ---------------------------- C1 --------------------------------------- *)

\* C1: losslessness.  When tokenize has returned, the spans of its result,
\* concatenated in order, are exactly the input it was called with, for every
\* tokenizer any sequence of merge and build calls can produce and every
\* input, unseen symbols and the empty input included.
C1_Lossless == tz_pc = "done" => Concat(tz_result) = tz_input

C1_Witness ==
    /\ tz_pc = "done"
    /\ Len(tz_result) >= 2
    /\ \E i \in DOMAIN tz_result : Len(tz_result[i]) >= 2
    /\ \E i \in DOMAIN tz_input : tz_input[i] = UnseenSymbol

(* ---------------------------- C2 --------------------------------------- *)

\* C2: tokenize never fails and always terminates.  It never panics, every
\* emitted span is non-empty, the spans emitted so far plus the part not yet
\* consumed make up the input (so no step takes more than what is left), a
\* call that has returned has consumed all of its input, every iteration of
\* the loop strictly shortens the part not yet consumed, and every call that
\* has started returns.
C2_Terminates ==
    /\ [](/\ tz_pc # "panic"
          /\ \A i \in DOMAIN tz_result : Len(tz_result[i]) >= 1
          /\ SumLen(tz_result) + Len(tz_word) = Len(tz_input)
          /\ (tz_pc = "done" => tz_word = <<>> /\ SumLen(tz_result) = Len(tz_input)))
    /\ [][tz_pc = "loop" /\ tz_pc' = "loop" => Len(tz_word') < Len(tz_word)]_vars
    /\ ((tz_pc = "loop") ~> (tz_pc = "done"))

C2_Witness ==
    /\ tz_pc = "done"
    /\ Len(tz_input) = MaxInputLen
    /\ Len(tz_result) = 2

(* ---------------------------- C3 --------------------------------------- *)

\* C3: greedy longest-prefix match.  Every span tokenize has emitted is the
\* longest token of the tokenizer's vocabulary that is a prefix of what was
\* left of the input at that point, or, when no token is a prefix of it,
\* exactly the next symbol.
C3_Greedy ==
    tz_pc \in {"loop", "done"} =>
        \A i \in DOMAIN tz_result :
            LET ptoks == PrefixTokens(RestAt(i))
            IN  IF ptoks = {}
                THEN tz_result[i] = <<RestAt(i)[1]>>
                ELSE /\ tz_result[i] \in ptoks
                     /\ \A t \in ptoks : Len(t) <= Len(tz_result[i])

\* A span was emitted where a shorter token was a prefix too.
C3_Witness ==
    /\ tz_pc = "done"
    /\ \E i \in DOMAIN tz_result :
          \E t \in PrefixTokens(RestAt(i)) : Len(t) < Len(tz_result[i])

(* ---------------------------- C4 --------------------------------------- *)

\* C4: unigram coverage.  After a merge round that succeeded, every symbol
\* that occurs in a corpus word is in tokens() as a length-1 token.
C4_UnigramCoverage ==
    (MergeReturned /\ last.result = "Ok") =>
        \A s \in Symbols(words) : <<s>> \in tokens

(* ---------------------------- C5 --------------------------------------- *)

\* C5: vocabulary size.  After the first successful round and k >= 1 further
\* successful rounds, tokens() holds (number of distinct corpus symbols) + k
\* tokens.
C5_SizeFormula ==
    ok_rounds >= 2 =>
        Cardinality(tokens) = Cardinality(Symbols(words)) + (ok_rounds - 1)

(* ---------------------------- C6 --------------------------------------- *)

\* C6: growth by exactly one.  The token set starts empty; as long as the
\* Vocab exists, a merge call that returns Ok adds exactly one token that
\* was not in the set, and no call (a failed merge, build) removes, replaces
\* or adds a token.
C6_GrowsByOne ==
    /\ tokens = {}
    /\ [][training' =>
            /\ tokens \subseteq tokens'
            /\ ((last'.op = "merge" /\ last'.result = "Ok")
                  => Cardinality(tokens') = Cardinality(tokens) + 1)
            /\ (~(last'.op = "merge" /\ last'.result = "Ok") => tokens' = tokens)]_vars

C6_Witness ==
    /\ MergeReturned
    /\ last.result = "Ok"
    /\ ok_rounds = 2
    /\ Cardinality(tokens) = 2

(* ---------------------------- C7 --------------------------------------- *)

\* C7: convergence outcome.  A merge call with min_freq >= 1 returns Err
\* exactly when the corpus has no adjacent span pair or the maximal aggregate
\* pair frequency is below min_freq, and Ok otherwise; it never panics.
C7_ErrIffNoCandidate ==
    [][(last'.op = "merge" /\ last'.min_freq >= 1) =>
          /\ last'.result \in {"Ok", "Err"}
          /\ (last'.result = "Err") <=>
                (\/ AdjacentPairs(words, token_head) = {}
                 \/ MaxPairFreq(AdjacentPairs(words, token_head)) < last'.min_freq)]_vars

\* A round failed although the corpus has adjacent pairs.
C7_Witness ==
    /\ MergeReturned
    /\ last.result = "Err"
    /\ last.min_freq >= 1
    /\ AdjacentPairs(words, token_head) # {}
    /\ ok_rounds >= 1

(* ---------------------------- C8 --------------------------------------- *)

\* C8: a merge round on an empty token set succeeds whenever the corpus has
\* at least one word.
C8_FirstRoundSucceeds ==
    [][(last'.op = "merge" /\ tokens = {} /\ words # <<>>) => last'.result = "Ok"]_vars

(* ---------------------------- C9 --------------------------------------- *)

\* C9: training determinism.  Two runs on the same corpus that make the same
\* merge calls get the same results, the same token set and the same
\* segmentation, and so tokenize every input alike.
C9_Deterministic ==
    /\ last2 = last
    /\ tokens2 = tokens
    /\ token_head2 = token_head
    /\ \A w \in Inputs : tokenize(tokens2, w) = tokenize(tokens, w)

(* ---------------------------- C10 -------------------------------------- *)

\* C10: snapshot independence.  build puts exactly the current token set
\* into the Tokenizer and changes neither the token set nor the markers; a
\* merge leaves the trie of a Tokenizer built before it as it was; and a
\* tokenize call answers from that trie alone, so its answer to every input
\* is the one the token set at the moment of build() gives.
C10_SnapshotIndependent ==
    /\ [](tz_pc = "done" => tz_result = tokenize(tokenizer.trie, tz_input))
    /\ [][/\ (last'.op = "build" =>
                /\ tokenizer'.trie = tokens
                /\ tokens' = tokens
                /\ token_head' = token_head)
          /\ ((last'.op = "merge" /\ tokenizer.built) =>
                /\ tokenizer'.built
                /\ tokenizer'.trie = tokenizer.trie)]_vars

\* A merge after build has changed the Vocab's token set, and the Tokenizer
\* answers some input differently from what the newer token set would give.
C10_Witness ==
    /\ MergeReturned
    /\ last.result = "Ok"
    /\ tokenizer.built
    /\ tokenizer.trie # tokens
    /\ \E w \in Inputs : tokenize(tokenizer.trie, w) # tokenize(tokens, w)

(* ---------------------------- more definitions for the properties ------ *)

\* The current segmentation of one word: its spans from position p on.
RECURSIVE Segmentation(_, _, _)
Segmentation(word, heads, p) ==
    IF p >= Len(word)
    THEN <<>>
    ELSE <<SubSeq(word, p + 1, p + heads[p + 1])>>
            \o Segmentation(word, heads, p + heads[p + 1])

\* Stepping from p by the markers visits positions inside the word only and
\* lands exactly on its end.
RECURSIVE LandsOnEnd(_, _)
LandsOnEnd(heads, p) ==
    IF p = Len(heads) THEN TRUE
    ELSE IF p > Len(heads) THEN FALSE
    ELSE heads[p + 1] >= 1 /\ LandsOnEnd(heads, p + heads[p + 1])

\* The number of spans of the whole corpus.
RECURSIVE NumSpans(_)
NumSpans(hs) ==
    IF hs = <<>> THEN 0
    ELSE Cardinality(SpanStarts(Head(hs), 0)) + NumSpans(Tail(hs))

(* ---------------------------- C11 -------------------------------------- *)

\* C11: out-of-vocabulary spans only for unseen symbols.  A Tokenizer built
\* after a successful merge round emits a span that is no vocabulary token
\* only as the single symbol of a position whose symbol occurs nowhere in the
\* corpus.
C11_FallbackOnlyUnseen ==
    (training /\ tokenizer.built /\ tokenizer.trie # {}) =>
        \A w \in Inputs :
            \A i \in DOMAIN tokenize(tokenizer.trie, w) :
                LET span == tokenize(tokenizer.trie, w)[i]
                IN  span \notin tokenizer.trie =>
                        /\ Len(span) = 1
                        /\ span[1] \notin Symbols(words)

(* ---------------------------- C13 -------------------------------------- *)

\* C13: partition invariant.  In every word, stepping from index 0 by the
\* token_head of the current span start visits strictly increasing positions
\* and lands exactly on word.len(), so merge's scan never indexes out of
\* bounds: no merge call panics.
C13_Partition ==
    /\ last.result # "Panic"
    /\ \A w \in DOMAIN words :
          /\ Len(token_head[w]) = Len(words[w])
          /\ LandsOnEnd(token_head[w], 0)
          /\ Concat(Segmentation(words[w], token_head[w], 0)) = words[w]

\* Overlapping occurrences of the winning pair were committed: a position
\* inside a span carries a stale marker greater than 1.
C13_Witness ==
    /\ MergeReturned
    /\ last.result = "Ok"
    /\ \E w \in DOMAIN words :
          \E i \in 0..(Len(words[w]) - 1) :
              /\ i \notin SpanStarts(token_head[w], 0)
              /\ token_head[w][i + 1] > 1

(* ---------------------------- C14 -------------------------------------- *)

\* C14: segmentation/vocabulary consistency.  After a successful round every
\* span of every word's segmentation, of any length, is in tokens().
C14_SpansAreTokens ==
    (training /\ ok_rounds >= 1) =>
        \A w \in DOMAIN words :
            \A i \in DOMAIN Segmentation(words[w], token_head[w], 0) :
                Segmentation(words[w], token_head[w], 0)[i] \in tokens

(* ---------------------------- C12 -------------------------------------- *)

\* The aggregate frequencies of all adjacent pairs, as <<left, right, n>>.
PairFreqs(aps) == {<<a.left, a.right, PairFreq(aps, a.left, a.right)>> : a \in aps}

ScenarioUnigrams == {<<"A">>, <<"B">>, <<"C">>, <<"D">>, <<"E">>}

\* C12: the concrete scenario.  On the corpus ABCDCDABCDCDE with
\* min_freq = 1, round 1 leaves the vocabulary {A, B, C, D, E}; round 2 sees
\* AB:2, BC:2, CD:4, DC:2, DA:1, DE:1 and adds exactly CD; round 3 sees
\* (A,B):2, (B,CD):2, (CD,CD):2, (CD,A):1, (CD,E):1; and tokenize of the word
\* concatenates back to the word.
C12_Scenario ==
    /\ (training /\ ok_rounds = 1) =>
          /\ tokens = ScenarioUnigrams
          /\ PairFreqs(AdjacentPairs(words, token_head)) =
                {<<<<"A">>, <<"B">>, 2>>, <<<<"B">>, <<"C">>, 2>>,
                 <<<<"C">>, <<"D">>, 4>>, <<<<"D">>, <<"C">>, 2>>,
                 <<<<"D">>, <<"A">>, 1>>, <<<<"D">>, <<"E">>, 1>>}
    /\ (training /\ ok_rounds = 2) =>
          /\ tokens = ScenarioUnigrams \cup {<<"C", "D">>}
          /\ PairFreqs(AdjacentPairs(words, token_head)) =
                {<<<<"A">>, <<"B">>, 2>>, <<<<"B">>, <<"C", "D">>, 2>>,
                 <<<<"C", "D">>, <<"C", "D">>, 2>>, <<<<"C", "D">>, <<"A">>, 1>>,
                 <<<<"C", "D">>, <<"E">>, 1>>}
    /\ (tz_pc = "done" /\ tz_input = ScenarioWord) => Concat(tz_result) = ScenarioWord

(* ---------------------------- C15 -------------------------------------- *)

MergeOkStep == last'.op = "merge" /\ last'.result = "Ok"

\* C15: pair selection.  No two different ordered pairs of adjacent spans
\* have the same concatenation, so the count kept under a key of `pairs` is
\* the aggregate frequency of one ordered pair, the number of its adjacent
\* occurrences in all words; and a successful round adds the token
\* left \o right of a pair whose aggregate frequency is maximal.
C15_PairSelection ==
    /\ [](training =>
            LET aps == AdjacentPairs(words, token_head)
                prs == pairs(words, token_head)
            IN  /\ \A a, b \in aps :
                      a.left \o a.right = b.left \o b.right => a.left = b.left
                /\ \A a \in aps :
                      freq(prs, a.left \o a.right) = PairFreq(aps, a.left, a.right))
    /\ [][MergeOkStep =>
            LET aps == AdjacentPairs(words, token_head)
            IN  \E a \in aps :
                    /\ tokens' = tokens \cup {a.left \o a.right}
                    /\ PairFreq(aps, a.left, a.right) = MaxPairFreq(aps)]_vars

\* A round with min_freq = 2 succeeded on a pair whose occurrences lie in two
\* words.
C15_Witness ==
    /\ MergeReturned
    /\ last.result = "Ok"
    /\ last.min_freq = 2
    /\ ok_rounds = 1
    /\ Len(words) = 2
    /\ \A w \in DOMAIN words :
          \E i \in DOMAIN Segmentation(words[w], token_head[w], 0) :
              Segmentation(words[w], token_head[w], 0)[i] \in tokens

(* ---------------------------- C16 -------------------------------------- *)

\* The spans of the corpus, each as <<word, start, length>>.
SpanSet(heads) ==
    UNION {{<<w, p, heads[w][p + 1]>> : p \in SpanStarts(heads[w], 0)} : w \in DOMAIN heads}

\* C16: commit completeness.  Right after a successful round that added the
\* token K, no two adjacent spans concatenate to K, at least one span
\* changed, and every span that changed is K.
C16_CommitComplete ==
    [][MergeOkStep =>
          \E K \in tokens' \ tokens :
              /\ \A a \in AdjacentPairs(words', token_head') : a.left \o a.right # K
              /\ SpanSet(token_head') # SpanSet(token_head)
              /\ \A sp \in SpanSet(token_head') \ SpanSet(token_head) :
                    SubSeq(words[sp[1]], sp[2] + 1, sp[2] + sp[3]) = K]_vars

\* The round turned two occurrences of the winning pair in one word into
\* spans.
C16_Witness ==
    /\ MergeReturned
    /\ last.result = "Ok"
    /\ ok_rounds = 1
    /\ \E w \in DOMAIN words :
          Cardinality({p \in SpanStarts(token_head[w], 0) :
                          token_head[w][p + 1] >= 2}) >= 2

(* ---------------------------- C17 -------------------------------------- *)

\* C17: strategy interchangeability.  After any number of successful merge
\* rounds, tokenizing each training word with the Tokenizer built from the
\* current token set gives exactly the word's materialized token_head
\* segmentation.
C17_Interchangeable ==
    (training /\ ok_rounds >= 1) =>
        \A w \in DOMAIN words :
            tokenize(build(tokens).trie, words[w]) =
                Segmentation(words[w], token_head[w], 0)

(* ---------------------------- C18 -------------------------------------- *)

\* C18: idempotent re-tokenization.  A call on the concatenation of the
\* spans a call returned returns the same spans; and whatever calls came
\* before it on the same Tokenizer, the spans a call returns are those of
\* tokenize as a function of the trie and the input alone, which tokenizing
\* their concatenation gives again.
C18_Idempotent ==
    /\ (tz_pc = "done" /\ last.op = "retokenize") => tz_result = tz_prev
    /\ tz_pc = "done" =>
          /\ tokenize(tokenizer.trie, Concat(tz_result)) = tz_result
          /\ tokenize(tokenizer.trie, Concat(tz_result)) =
                tokenize(tokenizer.trie, tz_input)

\* A repeated call has returned two spans, one of them a token and the
\* other a fallback span.
C18_Witness ==
    /\ tz_pc = "done"
    /\ last.op = "retokenize"
    /\ Len(tz_prev) = 2
    /\ \E i \in DOMAIN tz_result : tz_result[i] \in tokenizer.trie
    /\ \E i \in DOMAIN tz_result : tz_result[i] \notin tokenizer.trie

(* ---------------------------- C19 -------------------------------------- *)

\* Every outcome of merge(min_freq) on the given Vocab is Err.
Fails(wds, heads, toks, min_freq) ==
    \A out \in merge(wds, heads, toks, min_freq) : out.result = "Err"

\* ... on the Vocab of the current state.
WouldFail(min_freq) == Fails(words, token_head, tokens, min_freq)

\* C19: failure leaves the state unchanged.  A merge call that returns Err
\* leaves every marker of every word and the token set as they were; and
\* failure is absorbing: once merge fails for a threshold, it fails for that
\* threshold and every larger one after every later step of training, the
\* successful rounds with a smaller threshold included.
C19_FailureFrame ==
    [][/\ (last'.op = "merge" /\ last'.result = "Err") =>
              /\ token_head' = token_head
              /\ tokens' = tokens
              /\ words' = words
       /\ (training /\ training') =>
              \A m \in MinFreqs :
                  WouldFail(m) =>
                      \A m2 \in MinFreqs :
                          m2 >= m => Fails(words', token_head', tokens', m2)
       /\ (last'.op = "merge" /\ last'.result = "Err") =>
              Fails(words', token_head', tokens', last'.min_freq)]_vars

\* A merge call failed on a corpus that earlier rounds have changed, while a
\* smaller threshold would still succeed.
C19_Witness ==
    /\ MergeReturned
    /\ last.result = "Err"
    /\ tokens # {}
    /\ \E w \in DOMAIN words : \E i \in DOMAIN token_head[w] : token_head[w][i] > 1
    /\ ~WouldFail(1)

(* ---------------------------- C20 -------------------------------------- *)

\* C20: training terminates.  Every successful merge strictly decreases the
\* number of spans of all words together, and every span start of a word
\* after the round was a span start before it; so the successful rounds so
\* far are at most the symbols that are no longer span starts, which is at
\* most the number of symbols minus the number of words, whatever the
\* sequence of min_freq values.
C20_TrainingTerminates ==
    /\ [](training =>
            /\ ok_rounds <= SumLen(words) - NumSpans(token_head)
            /\ NumSpans(token_head) >= Len(words)
            /\ ok_rounds <= SumLen(words) - Len(words))
    /\ [][MergeOkStep =>
            /\ NumSpans(token_head') < NumSpans(token_head)
            /\ \A w \in DOMAIN words :
                  SpanStarts(token_head'[w], 0) \subseteq SpanStarts(token_head[w], 0)]_vars

\* The bound is attained: a word of three or more symbols has become one
\* span, one span start lost per round.
C20_Witness ==
    /\ training
    /\ ok_rounds >= 2
    /\ ok_rounds = SumLen(words) - Len(words)
    /\ NumSpans(token_head) = Len(words)

====
